---- MODULE Spec2Model ----
(***************************************************************************)
(* Cluster membership and epoch coordination of the sheep daemon           *)
(* (sheep/group.c), seen from one node: the event serializer, the request  *)
(* queue, the join admission, the membership handlers, the epoch log and   *)
(* the reference-counted vnode snapshots.                                  *)
(*                                                                         *)
(* The node's state is the record sys (struct system_info, the file-level  *)
(* statics event_running and current_vnode_info, and the node's epoch log  *)
(* and config on disk).  Every C function is an operator from a node state *)
(* to the node state it leaves; an action is one callback on the main      *)
(* thread, or one step of a worker thread.  Allocation failure (zalloc     *)
(* returning NULL) is not modelled.                                        *)
(***************************************************************************)
EXTENDS Integers, Sequences, FiniteSets, TLC

VARIABLES
    sys,        \* the node: struct system_info + statics + epoch log + config
    drv,        \* the group-communication driver, as this node sees it
    hist,       \* history of the run: the events started and done, in order
    load        \* the load of the run: how many deliveries and requests

vars == <<sys, drv, hist, load>>

-----------------------------------------------------------------------------
(* Bounds of the model                                                     *)

NumNodes == 3
MaxDeliveries == 4
MaxRequests == 3
MaxSnapshots == 3
MaxHeld == 3

-----------------------------------------------------------------------------
(* Nodes.  A node is identified by (addr, port), here a number; node_cmp   *)
(* orders nodes by (addr, port), here by the number.                       *)

Nodes == 1..NumNodes

this_node == 2

\* sd_node.zone: odd nodes in zone 1, even nodes in zone 2
Zone(n) == IF n % 2 = 1 THEN 1 ELSE 2

\* sd_node.nr_vnodes: node 3 is a pure gateway, every other node stores data
NrVnodesOf(n) == IF n = 3 THEN 0 ELSE 1

SD_MAX_REDUNDANCY == 8

SD_SHEEP_PROTO_VER == 1

NULL == 0

-----------------------------------------------------------------------------
(* Sequences helpers                                                       *)

Range(q) == {q[i] : i \in DOMAIN q}

InSeq(x, q) == \E i \in DOMAIN q : q[i] = x

RECURSIVE SeqRemove(_, _)
SeqRemove(q, x) ==
    IF q = <<>> THEN <<>>
    ELSE IF Head(q) = x THEN SeqRemove(Tail(q), x)
    ELSE <<Head(q)>> \o SeqRemove(Tail(q), x)

RECURSIVE Insert(_, _)
Insert(x, q) ==
    IF q = <<>> THEN <<x>>
    ELSE IF x <= Head(q) THEN <<x>> \o q
    ELSE <<Head(q)>> \o Insert(x, Tail(q))

\* qsort(nodes, nr, sizeof(*nodes), node_cmp)
RECURSIVE qsort(_)
qsort(q) == IF q = <<>> THEN <<>> ELSE Insert(Head(q), qsort(Tail(q)))

Min(a, b) == IF a <= b THEN a ELSE b

-----------------------------------------------------------------------------
(* Cluster status and the predicates on it                                  *)

SD_STATUS_OK == "Ok"
SD_STATUS_WAIT_FOR_FORMAT == "WaitFormat"
SD_STATUS_WAIT_FOR_JOIN == "WaitJoin"
SD_STATUS_SHUTDOWN == "Shutdown"
SD_STATUS_JOIN_FAILED == "JoinFailed"
SD_STATUS_HALT == "Halt"

sys_stat_ok(s) == s.status = SD_STATUS_OK
sys_stat_halt(s) == s.status = SD_STATUS_HALT
sys_stat_wait_format(s) == s.status = SD_STATUS_WAIT_FOR_FORMAT
sys_stat_wait_join(s) == s.status = SD_STATUS_WAIT_FOR_JOIN
sys_stat_shutdown(s) == s.status = SD_STATUS_SHUTDOWN
sys_stat_join_failed(s) == s.status = SD_STATUS_JOIN_FAILED
sys_stat_set(s, st) == [s EXCEPT !.status = st]

\* sys_can_recover(): the status allows recovery
sys_can_recover(s) == sys_stat_ok(s) \/ sys_stat_halt(s)

\* sys_can_halt(): the cluster flags allow halting (SD_FLAG_NOHALT is clear)
sys_can_halt(s) == ~s.nohalt


\* the loads of a run: deliveries only, or many requests with few deliveries
Loads ==
    {[deliveries |-> MaxDeliveries, requests |-> 0],
     [deliveries |-> 2, requests |-> MaxRequests]}

RECURSIVE MaxOf(_)
MaxOf(S) ==
    IF S = {} THEN 0
    ELSE LET x == CHOOSE y \in S : TRUE
             m == MaxOf(S \ {x})
         IN IF x > m THEN x ELSE m

NoEvent == [ctype |-> "none", id |-> 0]

NoReq == [id |-> 0, op |-> "none"]

\* what a format request carries: the birth time of the cluster and its
\* redundancy
FormatCtime == 1
FormatCopies == 2

\* create_cluster: the status comes from the epoch log, the lists are empty
create_cluster(log, nohalt) ==
    [alive |-> TRUE,
     this_node |-> this_node,
     status |-> IF MaxOf(DOMAIN log) = 0 THEN SD_STATUS_WAIT_FOR_FORMAT
                ELSE SD_STATUS_WAIT_FOR_JOIN,
     nodes |-> <<>>,
     epoch |-> 0,
     nr_copies |-> 0,
     nohalt |-> nohalt,
     join_finished |-> FALSE,
     leave_list |-> <<>>,
     pending_list |-> <<>>,
     request_queue |-> <<>>,
     outstanding_req_list |-> <<>>,
     nr_outstanding_io |-> 0,
     event_queue |-> <<>>,
     nr_cevents |-> 0,
     cur_cevent |-> NoEvent,
     event_running |-> 0,
     event_work |-> "idle",
     epoch_log |-> log,
     epoch_log_error |-> FALSE,
     ctime |-> IF MaxOf(DOMAIN log) = 0 THEN 0 ELSE FormatCtime,
     vnode_info |-> <<>>,
     current_vnode_info |-> NULL,
     recovery_epoch |-> 0,
     done_reqs |-> <<>>,
     block_work |-> NoReq]

\* the process after exit(1), abort() or a failed assert()
Dead(s) == [s EXCEPT !.alive = FALSE]

-----------------------------------------------------------------------------
(* The epoch log and the config file of the node (store.c, by interface):  *)
(* a record per epoch, read by epoch number; appending to an epoch that    *)
(* has a record is an error unless the content is the same.                *)

get_latest_epoch(s) == MaxOf(DOMAIN s.epoch_log)

\* epoch_log_read_nr: the number of nodes of the record, -1 when there is none
epoch_log_read_nr(s, epoch) ==
    IF epoch \in DOMAIN s.epoch_log THEN Len(s.epoch_log[epoch]) ELSE -1

epoch_log_nodes(s, epoch) ==
    IF epoch \in DOMAIN s.epoch_log THEN s.epoch_log[epoch] ELSE <<>>

\* get_nodes_nr_epoch divides the int that epoch_log_read returns by a size_t:
\* the -1 of a missing record becomes (2^64 - 1) / sizeof(struct sd_node),
\* cut to an int
NrOfMissingEpoch == -1431655766

get_nodes_nr_epoch(s, epoch) ==
    IF epoch \in DOMAIN s.epoch_log THEN Len(s.epoch_log[epoch])
    ELSE NrOfMissingEpoch

update_epoch_log(s, epoch, nodes) ==
    IF epoch \in DOMAIN s.epoch_log
    THEN IF s.epoch_log[epoch] = nodes THEN s
         ELSE [s EXCEPT !.epoch_log_error = TRUE]
    ELSE [s EXCEPT !.epoch_log =
              [e \in (DOMAIN s.epoch_log) \cup {epoch} |->
                  IF e = epoch THEN nodes ELSE s.epoch_log[e]]]

get_cluster_ctime(s) == s.ctime
set_cluster_ctime(s, ct) == [s EXCEPT !.ctime = ct]

find_entry_list(entry, head) == InSeq(entry, head)

find_entry_epoch(s, entry, epoch) == InSeq(entry, epoch_log_nodes(s, epoch))

get_nodes_nr_from(l) == Len(l)

-----------------------------------------------------------------------------
(* Vnode snapshots: vnode_info[p] is the structure at address p,           *)
(* current_vnode_info the address of the current one (NULL before the      *)
(* first membership update).                                               *)

RECURSIVE zones_from(_, _)
zones_from(nodes, zones) ==
    IF nodes = <<>> THEN zones
    ELSE IF NrVnodesOf(Head(nodes)) = 0 THEN zones_from(Tail(nodes), zones)
    ELSE IF InSeq(Zone(Head(nodes)), zones) THEN zones_from(Tail(nodes), zones)
    ELSE IF Len(zones) + 1 = SD_MAX_REDUNDANCY
         THEN Append(zones, Zone(Head(nodes)))
    ELSE zones_from(Tail(nodes), Append(zones, Zone(Head(nodes))))

get_zones_nr_from(nodes) == Len(zones_from(nodes, <<>>))

get_max_nr_copies_from(s, nodes) == Min(s.nr_copies, get_zones_nr_from(nodes))

RECURSIVE nodes_to_vnodes(_)
nodes_to_vnodes(nodes) ==
    IF nodes = <<>> THEN 0
    ELSE NrVnodesOf(Head(nodes)) + nodes_to_vnodes(Tail(nodes))

\* the assert of grab_vnode_info and put_vnode_info
RefcntPositive(s, p) == s.vnode_info[p].refcnt > 0

grab_vnode_info(s, p) ==
    IF ~RefcntPositive(s, p) THEN Dead(s)
    ELSE [s EXCEPT !.vnode_info[p].refcnt = @ + 1]

get_vnode_info(s) ==
    IF s.current_vnode_info = NULL THEN Dead(s)
    ELSE grab_vnode_info(s, s.current_vnode_info)

put_vnode_info(s, p) ==
    IF p = NULL THEN s
    ELSE IF ~RefcntPositive(s, p) THEN Dead(s)
    ELSE IF s.vnode_info[p].refcnt - 1 = 0
         THEN [s EXCEPT !.vnode_info[p].refcnt = 0,
                        !.vnode_info[p].freed = TRUE]
    ELSE [s EXCEPT !.vnode_info[p].refcnt = @ - 1]

\* update_vnode_info freeing the old snapshot whatever its reference count
update_vnode_info_free_old(s) ==
    LET vi == [nr_vnodes |-> nodes_to_vnodes(s.nodes),
               nr_zones |-> get_zones_nr_from(s.nodes),
               refcnt |-> 1,
               freed |-> FALSE]
        s1 == [s EXCEPT !.vnode_info = Append(@, vi)]
        s2 == IF s.current_vnode_info = NULL THEN s1
              ELSE [s1 EXCEPT !.vnode_info[s.current_vnode_info].refcnt = 0,
                              !.vnode_info[s.current_vnode_info].freed = TRUE]
    IN [s2 EXCEPT !.current_vnode_info = Len(s1.vnode_info)]

update_vnode_info(s) ==
    LET vi == [nr_vnodes |-> nodes_to_vnodes(s.nodes),
               nr_zones |-> get_zones_nr_from(s.nodes),
               refcnt |-> 1,
               freed |-> FALSE]
        s1 == [s EXCEPT !.vnode_info = Append(@, vi)]
        s2 == put_vnode_info(s1, s.current_vnode_info)
    IN [s2 EXCEPT !.current_vnode_info = Len(s1.vnode_info)]

get_nr_copies(s, p) == Min(s.vnode_info[p].nr_zones, s.nr_copies)

current_nr_zones(s) == s.vnode_info[s.current_vnode_info].nr_zones

-----------------------------------------------------------------------------
(* Join admission                                                          *)

SD_RES_SUCCESS == "SD_RES_SUCCESS"
SD_RES_VER_MISMATCH == "SD_RES_VER_MISMATCH"
SD_RES_INVALID_CTIME == "SD_RES_INVALID_CTIME"
SD_RES_OLD_NODE_VER == "SD_RES_OLD_NODE_VER"
SD_RES_NEW_NODE_VER == "SD_RES_NEW_NODE_VER"
SD_RES_INVALID_EPOCH == "SD_RES_INVALID_EPOCH"
SD_RES_NOT_FORMATTED == "SD_RES_NOT_FORMATTED"
SD_RES_SHUTDOWN == "SD_RES_SHUTDOWN"

CJ_RES_SUCCESS == "CJ_RES_SUCCESS"
CJ_RES_FAIL == "CJ_RES_FAIL"
CJ_RES_JOIN_LATER == "CJ_RES_JOIN_LATER"
CJ_RES_MASTER_TRANSFER == "CJ_RES_MASTER_TRANSFER"

\* struct join_message.  nodes[] and leave_nodes[] are one array (a union):
\* leave_nodes are the first nr_leave_nodes entries of nodes.
leave_nodes(jm) == SubSeq(jm.nodes, 1, Min(jm.nr_leave_nodes, Len(jm.nodes)))

\* storing list l into jm->leave_nodes[0 .. Len(l) - 1]
set_leave_nodes(jm, l) ==
    [jm EXCEPT !.nodes = l \o SubSeq(@, Len(l) + 1, Len(@)),
               !.nr_leave_nodes = Len(l)]

\* the bytes get_join_message_size counts: the header and nr_nodes entries
copy_join_message(jm) ==
    [jm EXCEPT !.nodes = SubSeq(@, 1, Min(jm.nr_nodes, Len(@)))]

\* read_epoch (store.c): the latest epoch, its record and the ctime, when the
\* node has an epoch log
read_epoch_ok(s) == get_latest_epoch(s) # 0

\* send_join_request: the message a node sends with its join
join_request(s, nr_copies) ==
    [proto_ver |-> SD_SHEEP_PROTO_VER,
     nr_copies |-> nr_copies,
     nr_nodes |-> IF read_epoch_ok(s)
                  THEN Len(epoch_log_nodes(s, get_latest_epoch(s))) ELSE 0,
     nr_leave_nodes |-> 0,
     cluster_status |-> "None",
     epoch |-> IF read_epoch_ok(s) THEN get_latest_epoch(s) ELSE 0,
     ctime |-> IF read_epoch_ok(s) THEN get_cluster_ctime(s) ELSE 0,
     result |-> SD_RES_SUCCESS,
     inc_epoch |-> 0,
     nodes |-> IF read_epoch_ok(s)
               THEN epoch_log_nodes(s, get_latest_epoch(s)) ELSE <<>>]

\* cluster_sanity_check without the early return of a node that can recover
cluster_sanity_check_strict(s, entries, nr_entries, ctime, epoch) ==
    LET lepoch == get_latest_epoch(s)
        nr_local_entries == epoch_log_read_nr(s, epoch)
    IN IF sys_stat_wait_format(s) \/ sys_stat_shutdown(s) THEN SD_RES_SUCCESS
       ELSE IF nr_entries = 0 THEN SD_RES_SUCCESS
       ELSE IF ctime # get_cluster_ctime(s) THEN SD_RES_INVALID_CTIME
       ELSE IF epoch > lepoch THEN SD_RES_OLD_NODE_VER
       ELSE IF epoch < lepoch THEN SD_RES_NEW_NODE_VER
       ELSE IF nr_entries # nr_local_entries
               \/ SubSeq(entries, 1, nr_entries) # epoch_log_nodes(s, epoch)
            THEN SD_RES_INVALID_EPOCH
       ELSE SD_RES_SUCCESS

cluster_sanity_check(s, entries, nr_entries, ctime, epoch) ==
    LET lepoch == get_latest_epoch(s)
        nr_local_entries == epoch_log_read_nr(s, epoch)
    IN IF sys_stat_wait_format(s) \/ sys_stat_shutdown(s) THEN SD_RES_SUCCESS
       ELSE IF nr_entries = 0 THEN SD_RES_SUCCESS
       ELSE IF ctime # get_cluster_ctime(s) THEN SD_RES_INVALID_CTIME
       ELSE IF epoch > lepoch THEN SD_RES_OLD_NODE_VER
       ELSE IF sys_can_recover(s) THEN SD_RES_SUCCESS
       ELSE IF epoch < lepoch THEN SD_RES_NEW_NODE_VER
       ELSE IF nr_entries # nr_local_entries
               \/ SubSeq(entries, 1, nr_entries) # epoch_log_nodes(s, epoch)
            THEN SD_RES_INVALID_EPOCH
       ELSE SD_RES_SUCCESS

\* get_cluster_status asking for a new epoch when the members and the
\* joining node are as many as the nodes of the record
get_cluster_status_inc_on_complete(s, from, entries, nr_entries, ctime, epoch) ==
    LET ret == cluster_sanity_check(s, entries, nr_entries, ctime, epoch)
        nr == Len(s.nodes) + 1
        nr_local_entries == epoch_log_read_nr(s, epoch)
        nr_leave_entries == get_nodes_nr_from(s.leave_list)
        out(r, st, inc) == [ret |-> r, status |-> st, inc_epoch |-> inc]
    IN IF ret # SD_RES_SUCCESS THEN out(ret, s.status, 0)
       ELSE IF sys_stat_halt(s) \/ sys_stat_ok(s)
            THEN out(SD_RES_SUCCESS, s.status, 1)
       ELSE IF sys_stat_wait_format(s)
            THEN out(IF nr_entries # 0 THEN SD_RES_NOT_FORMATTED
                     ELSE SD_RES_SUCCESS, s.status, 0)
       ELSE IF sys_stat_wait_join(s)
            THEN IF nr # nr_local_entries
                 THEN IF nr_local_entries = nr + nr_leave_entries
                      THEN out(SD_RES_SUCCESS, SD_STATUS_OK, 1)
                      ELSE out(SD_RES_SUCCESS, s.status, 0)
                 ELSE out(SD_RES_SUCCESS, SD_STATUS_OK, 1)
       ELSE IF sys_stat_shutdown(s)
            THEN out(SD_RES_SHUTDOWN, s.status, 0)
       ELSE out(SD_RES_SUCCESS, s.status, 0)

\* get_cluster_status: what it returns and what it stores through status and
\* inc_epoch (inc_epoch is stored only when the caller passes a pointer).
\* In WaitJoin with nr = nr_local_entries the loop over the local entries
\* leaves by break or by running out, and the status is set to Ok after it
\* either way.
get_cluster_status(s, from, entries, nr_entries, ctime, epoch) ==
    LET ret == cluster_sanity_check(s, entries, nr_entries, ctime, epoch)
        nr == Len(s.nodes) + 1
        nr_local_entries == epoch_log_read_nr(s, epoch)
        nr_leave_entries == get_nodes_nr_from(s.leave_list)
        out(r, st, inc) == [ret |-> r, status |-> st, inc_epoch |-> inc]
    IN IF ret # SD_RES_SUCCESS THEN out(ret, s.status, 0)
       ELSE IF sys_stat_halt(s) \/ sys_stat_ok(s)
            THEN out(SD_RES_SUCCESS, s.status, 1)
       ELSE IF sys_stat_wait_format(s)
            THEN out(IF nr_entries # 0 THEN SD_RES_NOT_FORMATTED
                     ELSE SD_RES_SUCCESS, s.status, 0)
       ELSE IF sys_stat_wait_join(s)
            THEN IF nr # nr_local_entries
                 THEN IF nr_local_entries = nr + nr_leave_entries
                      THEN out(SD_RES_SUCCESS, SD_STATUS_OK, 1)
                      ELSE out(SD_RES_SUCCESS, s.status, 0)
                 ELSE out(SD_RES_SUCCESS, SD_STATUS_OK, 0)
       ELSE IF sys_stat_shutdown(s)
            THEN out(SD_RES_SHUTDOWN, s.status, 0)
       ELSE out(SD_RES_SUCCESS, s.status, 0)

\* sd_check_join_cb transferring mastership whatever the status of the node
sd_check_join_cb_transfer_always(s, joining, jm) ==
    LET res(s1, jm1, r) == [sys |-> s1, jm |-> jm1, ret |-> r]
    IN IF jm.proto_ver # SD_SHEEP_PROTO_VER
       THEN res(s, [jm EXCEPT !.result = SD_RES_VER_MISMATCH], CJ_RES_FAIL)
       ELSE IF joining = s.this_node
       THEN IF read_epoch_ok(s)
            THEN LET epoch == get_latest_epoch(s)
                     entries == epoch_log_nodes(s, epoch)
                     s1 == [s EXCEPT !.epoch = epoch]
                     g == get_cluster_status(s1, joining, entries, Len(entries),
                                             get_cluster_ctime(s), epoch)
                 IN res(s1, [jm EXCEPT !.ctime = get_cluster_ctime(s),
                                       !.cluster_status = g.status],
                        CJ_RES_SUCCESS)
            ELSE res(s, [jm EXCEPT !.cluster_status = SD_STATUS_WAIT_FOR_FORMAT],
                     CJ_RES_SUCCESS)
       ELSE
       LET g == get_cluster_status(s, joining, jm.nodes, jm.nr_nodes, jm.ctime,
                                   jm.epoch)
           jm1 == [jm EXCEPT !.result = g.ret,
                             !.cluster_status = g.status,
                             !.inc_epoch = g.inc_epoch,
                             !.nr_copies = s.nr_copies,
                             !.ctime = get_cluster_ctime(s),
                             !.nr_leave_nodes = 0]
       IN IF g.ret = SD_RES_SUCCESS /\ g.status # SD_STATUS_OK
          THEN res(s, [set_leave_nodes(jm1, s.leave_list)
                          EXCEPT !.epoch = s.epoch], CJ_RES_SUCCESS)
          ELSE IF g.ret # SD_RES_SUCCESS /\ jm.epoch > s.epoch
          THEN res(s, jm1, CJ_RES_MASTER_TRANSFER)
          ELSE res(s, [jm1 EXCEPT !.epoch = s.epoch],
                   IF g.ret = SD_RES_SUCCESS THEN CJ_RES_SUCCESS
                   ELSE IF g.ret \in {SD_RES_OLD_NODE_VER, SD_RES_NEW_NODE_VER}
                        THEN CJ_RES_JOIN_LATER
                   ELSE CJ_RES_FAIL)

\* sd_check_join_cb: the node state, the message and the join result it leaves
sd_check_join_cb(s, joining, jm) ==
    LET res(s1, jm1, r) == [sys |-> s1, jm |-> jm1, ret |-> r]
    IN IF jm.proto_ver # SD_SHEEP_PROTO_VER
       THEN res(s, [jm EXCEPT !.result = SD_RES_VER_MISMATCH], CJ_RES_FAIL)
       ELSE IF joining = s.this_node
       THEN IF read_epoch_ok(s)
            THEN LET epoch == get_latest_epoch(s)
                     entries == epoch_log_nodes(s, epoch)
                     s1 == [s EXCEPT !.epoch = epoch]
                     g == get_cluster_status(s1, joining, entries, Len(entries),
                                             get_cluster_ctime(s), epoch)
                 IN res(s1, [jm EXCEPT !.ctime = get_cluster_ctime(s),
                                       !.cluster_status = g.status],
                        CJ_RES_SUCCESS)
            ELSE res(s, [jm EXCEPT !.cluster_status = SD_STATUS_WAIT_FOR_FORMAT],
                     CJ_RES_SUCCESS)
       ELSE
       LET g == get_cluster_status(s, joining, jm.nodes, jm.nr_nodes, jm.ctime,
                                   jm.epoch)
           jm1 == [jm EXCEPT !.result = g.ret,
                             !.cluster_status = g.status,
                             !.inc_epoch = g.inc_epoch,
                             !.nr_copies = s.nr_copies,
                             !.ctime = get_cluster_ctime(s),
                             !.nr_leave_nodes = 0]
       IN IF g.ret = SD_RES_SUCCESS /\ g.status # SD_STATUS_OK
          THEN res(s, [set_leave_nodes(jm1, s.leave_list)
                          EXCEPT !.epoch = s.epoch], CJ_RES_SUCCESS)
          ELSE IF g.ret # SD_RES_SUCCESS /\ jm.epoch > s.epoch
                  /\ g.status = SD_STATUS_WAIT_FOR_JOIN
          THEN res(s, jm1, CJ_RES_MASTER_TRANSFER)
          ELSE res(s, [jm1 EXCEPT !.epoch = s.epoch],
                   IF g.ret = SD_RES_SUCCESS THEN CJ_RES_SUCCESS
                   ELSE IF g.ret \in {SD_RES_OLD_NODE_VER, SD_RES_NEW_NODE_VER}
                        THEN CJ_RES_JOIN_LATER
                   ELSE CJ_RES_FAIL)

-----------------------------------------------------------------------------
(* Membership updates                                                      *)

update_node_info(s, nodes) ==
    update_vnode_info([s EXCEPT !.nodes = qsort(nodes)])

log_last_epoch(s, msg, joined, nodes) ==
    IF msg.cluster_status \in {SD_STATUS_OK, SD_STATUS_HALT}
       /\ msg.inc_epoch # 0
    THEN update_epoch_log(s, s.epoch, qsort(SeqRemove(nodes, joined)))
    ELSE s

\* lines 603-616, 1246-1259: the nodes of l that are not yet in leave_list
\* and are in the record of epoch le are appended to leave_list
RECURSIVE add_leave_nodes(_, _, _)
add_leave_nodes(s, l, le) ==
    IF l = <<>> THEN s
    ELSE IF find_entry_list(Head(l), s.leave_list)
            \/ ~find_entry_epoch(s, Head(l), le)
         THEN add_leave_nodes(s, Tail(l), le)
    ELSE add_leave_nodes([s EXCEPT !.leave_list = Append(@, Head(l))],
                         Tail(l), le)

\* finish_join that leaves join_finished clear
finish_join_unfinished(s, msg, joined, nodes) ==
    LET s1 == [s EXCEPT !.nr_copies = msg.nr_copies,
                        !.epoch = msg.epoch]
        s2 == log_last_epoch(s1, msg, joined, nodes)
    IN IF msg.cluster_status # SD_STATUS_OK
       THEN add_leave_nodes(s2, leave_nodes(msg), get_latest_epoch(s2))
       ELSE s2

finish_join(s, msg, joined, nodes) ==
    LET s1 == [s EXCEPT !.join_finished = TRUE,
                        !.nr_copies = msg.nr_copies,
                        !.epoch = msg.epoch]
        s2 == log_last_epoch(s1, msg, joined, nodes)
    IN IF msg.cluster_status # SD_STATUS_OK
       THEN add_leave_nodes(s2, leave_nodes(msg), get_latest_epoch(s2))
       ELSE s2

update_cluster_info(s, msg, joined, nodes) ==
    IF sys_stat_join_failed(s) THEN s
    ELSE
    LET s1 == IF ~s.join_finished THEN finish_join(s, msg, joined, nodes)
              ELSE s
        s2 == update_node_info(s1, nodes)
        s3 == IF msg.cluster_status \in {SD_STATUS_OK, SD_STATUS_HALT}
                 /\ msg.inc_epoch # 0
              THEN update_epoch_log([s2 EXCEPT !.epoch = @ + 1],
                                    s2.epoch + 1, s2.nodes)
              ELSE s2
    IN IF msg.cluster_status \in {SD_STATUS_OK, SD_STATUS_HALT}
          /\ ~sys_stat_ok(s3) /\ ~sys_stat_halt(s3)
       THEN set_cluster_ctime(s3, msg.ctime)
       ELSE s3

-----------------------------------------------------------------------------
(* Requests and the request queue                                          *)

\* the kinds of request: object I/O, a local op, and the cluster ops whose
\* process_main formats the cluster or shuts it down (notify-only ops)
ReqOps == {"io", "local", "format", "shutdown"}

\* a cluster op with process work, run between block() and unblock(): the
\* creation of a VDI
NewVdi == "new_vdi"

is_io_op(op) == op = "io"
is_cluster_op(op) == op \in {"format", "shutdown", NewVdi}
has_process_work(op) == op = NewVdi
has_process_main(op) == op \in {"format", "shutdown", NewVdi}

\* prepare_cluster_msg: the request header and response copied into a message
\* (from is not in the message: it names the request the message was built from)
prepare_cluster_msg(req) ==
    [op |-> req.op, result |-> SD_RES_SUCCESS, from |-> req.id]

queue_cluster_request_at_head(s, req) ==
    [s EXCEPT !.pending_list = <<req>> \o @]

\* queue_cluster_request.  The message handed to cdrv->notify is read off the
\* pending list by the action that runs this (see Notified).
queue_cluster_request(s, req) ==
    IF has_process_work(req.op)
    THEN [s EXCEPT !.pending_list = Append(@, req)]
    ELSE [s EXCEPT !.pending_list = Append(@, req)]

\* sd_block_handler: the work of the first request of the pending list is
\* queued on the block work queue
sd_block_handler(s) == [s EXCEPT !.block_work = Head(s.pending_list)]

\* cluster_op_done: the work is done; its message goes to cdrv->unblock
\* (read off block_work by the action that runs this)
cluster_op_done(s) == [s EXCEPT !.block_work = NoReq]

RECURSIVE process_request_queue(_)
process_request_queue(s) ==
    IF s.request_queue = <<>> THEN s
    ELSE LET req == Head(s.request_queue)
             s1 == [s EXCEPT !.request_queue = Tail(@)]
         IN IF is_io_op(req.op)
            THEN process_request_queue(
                     [s1 EXCEPT !.outstanding_req_list = Append(@, req),
                                !.nr_outstanding_io = @ + 1])
            ELSE IF is_cluster_op(req.op)
            THEN process_request_queue(queue_cluster_request(s1, req))
            ELSE process_request_queue(s1)

-----------------------------------------------------------------------------
(* The event queue                                                         *)

EVENT_JOIN == "EVENT_JOIN"
EVENT_LEAVE == "EVENT_LEAVE"
EVENT_NOTIFY == "EVENT_NOTIFY"

\* list_add in place of list_add_tail: the event goes to the head of the queue
add_event_head(s, cevent) ==
    [s EXCEPT !.event_queue = <<[cevent EXCEPT !.id = s.nr_cevents + 1]>> \o @,
              !.nr_cevents = @ + 1]

\* list_add_tail(&cevent->event_list, &sys->event_queue); id stands for the
\* address of the event structure, numbered in the order of allocation
add_event(s, cevent) ==
    [s EXCEPT !.event_queue = Append(@, [cevent EXCEPT !.id = s.nr_cevents + 1]),
              !.nr_cevents = @ + 1]

\* process_event_queue without the test of event_running and nr_outstanding_io
process_event_queue_unguarded(s) ==
    [s EXCEPT !.cur_cevent = Head(s.event_queue),
              !.event_queue = Tail(@),
              !.event_running = 1,
              !.event_work = "queued"]

process_event_queue(s) ==
    IF s.event_running # 0 \/ s.nr_outstanding_io # 0 THEN s
    ELSE [s EXCEPT !.cur_cevent = Head(s.event_queue),
                   !.event_queue = Tail(@),
                   !.event_running = 1,
                   !.event_work = "queued"]

process_request_event_queues(s) ==
    IF s.event_queue # <<>> THEN process_event_queue(s)
    ELSE process_request_queue(s)

-----------------------------------------------------------------------------
(* Driver callbacks (main thread)                                          *)

sd_notify_handler(s, sender, msg) ==
    LET w == [ctype |-> EVENT_NOTIFY, id |-> 0, sender |-> sender, msg |-> msg,
              req |-> IF sender = s.this_node THEN Head(s.pending_list)
                      ELSE NoReq]
        s1 == IF sender = s.this_node
              THEN [s EXCEPT !.pending_list = Tail(@)]
              ELSE s
    IN process_request_event_queues(add_event(s1, w))

\* the rejection of a peer handled in every status
join_rejected_any_status(s, joined, nr_members, le) ==
    IF find_entry_list(joined, s.leave_list)
       \/ ~find_entry_epoch(s, joined, le)
    THEN s
    ELSE LET s1 == [s EXCEPT !.leave_list = Append(@, joined)]
             nr_local == get_nodes_nr_epoch(s1, s1.epoch)
             nr_leave == get_nodes_nr_from(s1.leave_list)
         IN IF nr_local = nr_members + nr_leave
            THEN update_epoch_log(sys_stat_set(s1, SD_STATUS_OK),
                                  s1.epoch, s1.nodes)
            ELSE s1

\* lines 1216-1243: a peer's join was rejected
join_rejected(s, joined, nr_members, le) ==
    IF ~sys_stat_wait_join(s) THEN s
    ELSE IF find_entry_list(joined, s.leave_list)
            \/ ~find_entry_epoch(s, joined, le)
    THEN s
    ELSE LET s1 == [s EXCEPT !.leave_list = Append(@, joined)]
             nr_local == get_nodes_nr_epoch(s1, s1.epoch)
             nr_leave == get_nodes_nr_from(s1.leave_list)
         IN IF nr_local = nr_members + nr_leave
            THEN update_epoch_log(sys_stat_set(s1, SD_STATUS_OK),
                                  s1.epoch, s1.nodes)
            ELSE s1

\* the master transfer with the epoch of the message taken by the node
master_transfer_adopt_epoch(s, joined, nr_members, jm, le) ==
    LET s1 == add_leave_nodes(s, leave_nodes(jm), le)
        s2 == IF s1.join_finished THEN [s1 EXCEPT !.epoch = jm.epoch]
              ELSE IF Len(s1.nodes) # 0 THEN Dead(s1)
              ELSE LET u == update_node_info(
                                [s1 EXCEPT !.join_finished = TRUE],
                                <<s1.this_node>>)
                   IN [u EXCEPT !.epoch = get_latest_epoch(u)]
        nr_local == get_nodes_nr_epoch(s2, s2.epoch)
        nr_leave == get_nodes_nr_from(s2.leave_list)
    IN IF ~s2.alive THEN s2
       ELSE IF nr_local = nr_members + nr_leave
       THEN update_epoch_log(sys_stat_set(s2, SD_STATUS_OK), s2.epoch, s2.nodes)
       ELSE s2

\* lines 1244-1284: mastership is transferred to the joining node
master_transfer(s, joined, nr_members, jm, le) ==
    LET s1 == add_leave_nodes(s, leave_nodes(jm), le)
        s2 == IF s1.join_finished THEN s1
              ELSE IF Len(s1.nodes) # 0 THEN Dead(s1)
              ELSE LET u == update_node_info(
                                [s1 EXCEPT !.join_finished = TRUE],
                                <<s1.this_node>>)
                   IN [u EXCEPT !.epoch = get_latest_epoch(u)]
        nr_local == get_nodes_nr_epoch(s2, s2.epoch)
        nr_leave == get_nodes_nr_from(s2.leave_list)
    IN IF ~s2.alive THEN s2
       ELSE IF nr_local = nr_members + nr_leave
       THEN update_epoch_log(sys_stat_set(s2, SD_STATUS_OK), s2.epoch, s2.nodes)
       ELSE s2

sd_join_handler(s, joined, members, result, jm) ==
    LET le == get_latest_epoch(s)
    IN IF joined = s.this_node /\ result \in {CJ_RES_FAIL, CJ_RES_JOIN_LATER}
       THEN Dead(s)
       ELSE IF result = CJ_RES_SUCCESS
       THEN IF sys_stat_shutdown(s) THEN s
            ELSE LET s1 == update_cluster_info(s, jm, joined, members)
                     w == [ctype |-> EVENT_JOIN, id |-> 0,
                           member_list |-> members, joined |-> joined,
                           jm |-> copy_join_message(jm)]
                 IN process_request_event_queues(add_event(s1, w))
       ELSE IF result \in {CJ_RES_FAIL, CJ_RES_JOIN_LATER}
       THEN join_rejected(s, joined, Len(members), le)
       ELSE master_transfer(s, joined, Len(members), jm, le)

\* sd_leave_handler keeping the epoch of the node
sd_leave_handler_same_epoch(s, left, members) ==
    IF sys_stat_shutdown(s) THEN s
    ELSE LET s1 == update_node_info(s, members)
             w == [ctype |-> EVENT_LEAVE, id |-> 0, member_list |-> members,
                   left |-> left]
         IN process_request_event_queues(add_event(s1, w))

sd_leave_handler(s, left, members) ==
    IF sys_stat_shutdown(s) THEN s
    ELSE LET s1 == update_node_info(s, members)
             s2 == IF sys_can_recover(s1)
                   THEN update_epoch_log([s1 EXCEPT !.epoch = @ + 1],
                                         s1.epoch + 1, s1.nodes)
                   ELSE s1
             w == [ctype |-> EVENT_LEAVE, id |-> 0, member_list |-> members,
                   left |-> left]
         IN process_request_event_queues(add_event(s2, w))

-----------------------------------------------------------------------------
(* The event work: event_fn on a worker thread, event_done on the main     *)
(* thread                                                                  *)

\* check_majority, with the set of nodes connect_to reaches
RECURSIVE count_reachable(_, _, _, _)
count_reachable(nodes, reachable, nr_reachable, nr_majority) ==
    IF nodes = <<>> THEN 0
    ELSE IF Head(nodes) \notin reachable
         THEN count_reachable(Tail(nodes), reachable, nr_reachable, nr_majority)
    ELSE IF nr_reachable + 1 >= nr_majority THEN 1
    ELSE count_reachable(Tail(nodes), reachable, nr_reachable + 1, nr_majority)

\* check_majority asking for one more than the half rounded up
check_majority_ceil(nodes, reachable) ==
    IF Len(nodes) < 3 THEN 1
    ELSE count_reachable(nodes, reachable, 0, (Len(nodes) + 1) \div 2 + 1)

check_majority(nodes, reachable) ==
    IF Len(nodes) < 3 THEN 1
    ELSE count_reachable(nodes, reachable, 0, Len(nodes) \div 2 + 1)

\* __sd_join only fetches VDI bitmaps, __sd_notify does nothing
event_fn(s, reachable) ==
    LET s1 == [s EXCEPT !.event_work = "fn_done"]
    IN IF s.cur_cevent.ctype = EVENT_LEAVE
          /\ check_majority(s.cur_cevent.member_list, reachable) = 0
       THEN Dead(s1)
       ELSE s1

\* start_recovery (recovery.c): recovery is started for the epoch
start_recovery(s, epoch) == [s EXCEPT !.recovery_epoch = epoch]

__sd_join_done(s, w) ==
    LET s1 == sys_stat_set(s, w.jm.cluster_status)
        s2 == IF sys_can_recover(s1) /\ w.jm.inc_epoch # 0
              THEN start_recovery([s1 EXCEPT !.leave_list = <<>>], s1.epoch)
              ELSE s1
    IN IF sys_stat_halt(s2) /\ current_nr_zones(s2) >= s2.nr_copies
       THEN sys_stat_set(s2, SD_STATUS_OK)
       ELSE s2

\* __sd_leave_done halting without a look at the zones
__sd_leave_done_halt_always(s, w) ==
    LET s1 == IF sys_can_recover(s) THEN start_recovery(s, s.epoch) ELSE s
    IN IF sys_can_halt(s1) THEN sys_stat_set(s1, SD_STATUS_HALT) ELSE s1

__sd_leave_done(s, w) ==
    LET s1 == IF sys_can_recover(s) THEN start_recovery(s, s.epoch) ELSE s
    IN IF sys_can_halt(s1) /\ current_nr_zones(s1) < s1.nr_copies
       THEN sys_stat_set(s1, SD_STATUS_HALT)
       ELSE s1

\* process_main of the format op (ops.c, by the spec): a node waiting for
\* format starts epoch 1 with the current members and becomes Ok
cluster_make_fs(s) ==
    IF ~sys_stat_wait_format(s) THEN s
    ELSE LET s1 == [s EXCEPT !.nr_copies = FormatCopies,
                             !.ctime = FormatCtime,
                             !.epoch = 1]
         IN sys_stat_set(update_epoch_log(s1, 1, s1.nodes), SD_STATUS_OK)

\* process_main of the shutdown op (ops.c, by the spec)
cluster_shutdown(s) == sys_stat_set(s, SD_STATUS_SHUTDOWN)

do_process_main(s, op) ==
    IF op = "format" THEN cluster_make_fs(s)
    ELSE IF op = "shutdown" THEN cluster_shutdown(s)
    ELSE s

\* req_done (sdnet.c): the response goes to the client
req_done(s, req) == [s EXCEPT !.done_reqs = Append(@, req.id)]

__sd_notify_done(s, w) ==
    LET s1 == IF w.msg.result = SD_RES_SUCCESS /\ has_process_main(w.msg.op)
              THEN do_process_main(s, w.msg.op)
              ELSE s
    IN IF w.req = NoReq THEN s1 ELSE req_done(s1, w.req)

event_done_without_dispatch(s) ==
    LET cevent == s.cur_cevent
        s1 == [s EXCEPT !.cur_cevent = NoEvent]
        s2 == IF cevent.ctype = EVENT_JOIN THEN __sd_join_done(s1, cevent)
              ELSE IF cevent.ctype = EVENT_LEAVE
                   THEN __sd_leave_done(s1, cevent)
              ELSE IF cevent.ctype = EVENT_NOTIFY
                   THEN __sd_notify_done(s1, cevent)
              ELSE s1
    IN [s2 EXCEPT !.event_running = 0, !.event_work = "idle"]

event_done(s) ==
    LET cevent == s.cur_cevent
        s1 == [s EXCEPT !.cur_cevent = NoEvent]
        s2 == IF cevent.ctype = EVENT_JOIN THEN __sd_join_done(s1, cevent)
              ELSE IF cevent.ctype = EVENT_LEAVE
                   THEN __sd_leave_done(s1, cevent)
              ELSE IF cevent.ctype = EVENT_NOTIFY
                   THEN __sd_notify_done(s1, cevent)
              ELSE s1
    IN process_request_event_queues(
           [s2 EXCEPT !.event_running = 0, !.event_work = "idle"])

-----------------------------------------------------------------------------
(* The node at start (create_cluster), and the environment                 *)

\* the epoch logs a starting node may have on disk: none (a new node); the
\* log of a cluster of nodes 1 and 2 that was formatted and shut down; the
\* log of a cluster this node formatted, that nodes 1 and 3 joined, and that
\* was shut down
InitLogs ==
    {<<>>,
     (1 :> <<1, 2>>),
     (1 :> <<2>> @@ 2 :> <<1, 2>> @@ 3 :> <<1, 2, 3>>)}

\* the redundancy in the config file of a node that has an epoch log
config_copies(s) == IF read_epoch_ok(s) THEN FormatCopies ELSE 0

NoJoin == [joined |-> 0]

\* the groups this node may find when it starts: none, or a running one
InitGroups == {<<>>, <<1>>}

Init ==
    /\ \E log \in InitLogs, nohalt \in BOOLEAN :
           sys = create_cluster(log, nohalt)
    /\ \E g \in InitGroups :
           drv = [members |-> g, out |-> <<>>, admitted |-> NoJoin,
                  nr_deliveries |-> 0]
    /\ hist = [started |-> <<>>, done |-> <<>>, nr_requests |-> 0,
               behind |-> <<>>]
    /\ load \in Loads

\* the messages cdrv->notify was given while s became s2
Notified(s, s2) ==
    IF Len(s2.pending_list) > Len(s.pending_list)
    THEN [i \in 1..(Len(s2.pending_list) - Len(s.pending_list)) |->
             prepare_cluster_msg(s2.pending_list[Len(s.pending_list) + i])]
    ELSE <<>>

\* a membership event is at the head of the event queue and waits for the
\* outstanding I/O to finish
WaitsForIo(s) ==
    /\ s.event_queue # <<>> /\ s.event_running = 0 /\ s.nr_outstanding_io > 0
    /\ Head(s.event_queue).ctype \in {EVENT_JOIN, EVENT_LEAVE}

\* request id is on the request queue
InQueue(s, id) == \E i \in DOMAIN s.request_queue : s.request_queue[i].id = id

\* one callback or worker step took the node from sys to s2; hist.behind[i]
\* is the event that waited for I/O when request i was put on the queue and
\* stayed there (0 when there was none)
Step(s2, op, d) ==
    /\ sys' = s2
    /\ drv' = [d EXCEPT !.out = @ \o Notified(sys, s2)]
    /\ hist' = [hist EXCEPT
           !.started = IF s2.cur_cevent # NoEvent /\ s2.cur_cevent # sys.cur_cevent
                       THEN Append(@, s2.cur_cevent.id) ELSE @,
           !.done = IF op = "event_done" THEN Append(@, sys.cur_cevent.id)
                    ELSE @,
           !.nr_requests = IF op = "queue_request" THEN @ + 1 ELSE @,
           !.behind = IF op # "queue_request" THEN @
                      ELSE IF WaitsForIo(s2) /\ InQueue(s2, hist.nr_requests + 1)
                      THEN Append(@, Head(s2.event_queue).id)
                      ELSE Append(@, 0)]
    /\ UNCHANGED load

Delivered(d) == [d EXCEPT !.nr_deliveries = @ + 1]

-----------------------------------------------------------------------------
(* Join requests of the peers, and the answers of a master to this node    *)

\* the latest record a restarting peer may find in its epoch log: the epoch
\* and the members of it
CandRecords ==
    {[epoch |-> 1, nodes |-> <<1, 2>>],
     [epoch |-> 1, nodes |-> <<1, 2, 3>>],
     [epoch |-> 3, nodes |-> <<1, 2, 3>>],
     [epoch |-> 3, nodes |-> <<1, 3>>],
     [epoch |-> 4, nodes |-> <<1, 3>>]}

\* the join messages of peer n: a new node, a node of another protocol
\* version, a node with an epoch log of this cluster (it is in the latest
\* record of its log), a node of another cluster (another ctime)
CandidateMsgs(n) ==
    LET base == join_request(create_cluster(<<>>, FALSE), 0)
        old(e, c, l) == [base EXCEPT !.nr_copies = FormatCopies, !.epoch = e,
                                     !.ctime = c, !.nodes = l,
                                     !.nr_nodes = Len(l)]
    IN {base, [base EXCEPT !.proto_ver = 0]}
       \cup {old(r.epoch, FormatCtime, r.nodes) :
                r \in {c \in CandRecords : InSeq(n, c.nodes)}}
       \cup {old(1, FormatCtime + 1, <<n>>)}

\* the epoch log of node 1 after the other nodes of the record left one by
\* one, this node first
RECURSIVE AfterLeaves(_, _)
AfterLeaves(log, nodes) ==
    IF Len(nodes) <= 1 THEN log
    ELSE LET out == IF InSeq(this_node, nodes) THEN this_node
                    ELSE nodes[Len(nodes)]
             rest == SeqRemove(nodes, out)
         IN AfterLeaves(log @@ (MaxOf(DOMAIN log) + 1 :> rest), rest)

\* the states the master of the running group (node 1, alone in the group)
\* may be in when this node asks to join.  For a new node: a master waiting
\* for format, a master that formatted alone (Ok or Halt), a restarted master
\* waiting for node 3.  For a node with an epoch log: a master that went on
\* after the others left (Ok or Halt, or restarted since), a master restarted
\* with the same log (with or without node 3 on its leave list), a master
\* restarted with an older log, a master of another cluster.
MasterStates(s) ==
    LET up(log, st, lv, ct) ==
            [create_cluster(log, FALSE) EXCEPT
                !.this_node = 1, !.status = st, !.nodes = <<1>>,
                !.join_finished = TRUE, !.epoch = MaxOf(DOMAIN log),
                !.nr_copies = IF log = <<>> THEN 0 ELSE FormatCopies,
                !.leave_list = lv, !.ctime = ct]
        L == s.epoch_log
        le == get_latest_epoch(s)
        newer == AfterLeaves(L, L[le])
        older == [e \in DOMAIN L \ {le} |-> L[e]]
    IN IF L = <<>>
       THEN {up(<<>>, SD_STATUS_WAIT_FOR_FORMAT, <<>>, 0),
             up((1 :> <<1>>), SD_STATUS_OK, <<>>, FormatCtime),
             up((1 :> <<1>>), SD_STATUS_HALT, <<>>, FormatCtime),
             up((1 :> <<1, 3>>), SD_STATUS_WAIT_FOR_JOIN, <<>>, FormatCtime)}
       ELSE {up(newer, st, <<>>, FormatCtime) :
                st \in {SD_STATUS_OK, SD_STATUS_HALT, SD_STATUS_WAIT_FOR_JOIN}}
            \cup {up(L, SD_STATUS_WAIT_FOR_JOIN, lv, FormatCtime) :
                     lv \in {<<>>} \cup (IF InSeq(3, L[le]) THEN {<<3>>} ELSE {})}
            \cup (IF le > 1
                  THEN {up(older, SD_STATUS_WAIT_FOR_JOIN, <<>>, FormatCtime)}
                  ELSE {})
            \cup {up((1 :> <<1>>), SD_STATUS_OK, <<>>, FormatCtime + 1)}

\* what the master of the running group answers to the join of this node:
\* the result of its sd_check_join_cb on the join request of this node
MasterAnswers(s) ==
    {LET r == sd_check_join_cb(m, s.this_node,
                               join_request(s, config_copies(s)))
     IN [jm |-> r.jm, result |-> r.ret] : m \in MasterStates(s)}

-----------------------------------------------------------------------------
(* Actions                                                                 *)

Running == sys.alive

CanDeliver == Running /\ drv.nr_deliveries < load.deliveries

\* this node is the first of the group: the driver asks it about itself
CheckJoinSelf ==
    /\ Running /\ drv.members = <<>> /\ drv.admitted = NoJoin
    /\ ~sys.join_finished
    /\ LET r == sd_check_join_cb(sys, this_node,
                                 join_request(sys, config_copies(sys)))
       IN Step(r.sys,
               "sd_check_join_cb",
               [drv EXCEPT !.admitted =
                   [joined |-> this_node, jm |-> r.jm, result |-> r.ret]])

\* a peer asks to join the group this node is in: the admission check, as
\* this node runs it when it is the master (the head of the member list).
\* When another node is the master, the master runs it: its state is the
\* state of this node once this node has applied every delivered event.
CheckJoinPeer ==
    /\ Running /\ InSeq(this_node, drv.members) /\ drv.admitted = NoJoin
    /\ drv.nr_deliveries < load.deliveries
    /\ \/ Head(drv.members) = this_node
       \/ sys.event_running = 0 /\ sys.event_queue = <<>>
    /\ \E n \in Nodes \ Range(drv.members) : \E cand \in CandidateMsgs(n) :
           LET r == sd_check_join_cb(sys, n, cand)
           IN Step(r.sys,
                   "sd_check_join_cb",
                   [drv EXCEPT !.admitted =
                       [joined |-> n, jm |-> r.jm, result |-> r.ret]])

\* this node asks to join a running group: the master answers
CheckJoinByMaster ==
    /\ Running /\ drv.members # <<>> /\ ~InSeq(this_node, drv.members)
    /\ drv.admitted = NoJoin /\ ~sys.join_finished
    /\ \E a \in MasterAnswers(sys) :
           Step(sys, "join_answer",
                [drv EXCEPT !.admitted =
                    [joined |-> this_node, jm |-> a.jm, result |-> a.result]])

\* the member list the driver passes with the delivery of a join
MembersAfterJoin(a) ==
    IF a.result = CJ_RES_SUCCESS THEN Append(drv.members, a.joined)
    ELSE IF a.result = CJ_RES_MASTER_TRANSFER
         THEN IF a.joined = this_node THEN <<this_node>>
              ELSE Append(drv.members, a.joined)
    ELSE drv.members

DeliverJoin ==
    /\ CanDeliver /\ drv.admitted # NoJoin
    /\ LET a == drv.admitted
           members == MembersAfterJoin(a)
       IN Step(sd_join_handler(sys, a.joined, members, a.result, a.jm),
               "sd_join_handler",
               Delivered([drv EXCEPT !.members = members,
                                     !.admitted = NoJoin]))

DeliverLeave ==
    /\ CanDeliver /\ drv.admitted = NoJoin /\ InSeq(this_node, drv.members)
    /\ \E left \in Range(drv.members) \ {this_node} :
           LET members == SeqRemove(drv.members, left)
           IN Step(sd_leave_handler(sys, left, members),
                   "sd_leave_handler",
                   Delivered([drv EXCEPT !.members = members]))

\* a broadcast of this node comes back
DeliverNotifySelf ==
    /\ CanDeliver /\ drv.admitted = NoJoin /\ InSeq(this_node, drv.members)
    /\ drv.out # <<>>
    /\ Step(sd_notify_handler(sys, this_node, Head(drv.out)),
            "sd_notify_handler",
            Delivered([drv EXCEPT !.out = Tail(@)]))

\* a broadcast of a peer arrives
DeliverNotifyPeer ==
    /\ CanDeliver /\ drv.admitted = NoJoin /\ InSeq(this_node, drv.members)
    /\ \E sender \in Range(drv.members) \ {this_node} :
       \E op \in {"format", "shutdown"} :
           Step(sd_notify_handler(sys, sender,
                    [op |-> op, result |-> SD_RES_SUCCESS, from |-> 0]),
                "sd_notify_handler",
                Delivered(drv))

\* queue_request (sdnet.c): a client request is put on the request queue
queue_request(s, req) ==
    process_request_event_queues([s EXCEPT !.request_queue = Append(@, req)])

\* a client request arrives.  Object I/O and local ops are sent to a node
\* that serves the cluster (status Ok); cluster ops are sent in any status.
QueueRequest ==
    /\ Running /\ hist.nr_requests < load.requests
    /\ \E op \in ReqOps :
           /\ is_cluster_op(op) \/ sys_stat_ok(sys)
           /\ Step(queue_request(sys, [id |-> hist.nr_requests + 1, op |-> op]),
                "queue_request", drv)

\* the completion of an I/O request (sdnet.c): it leaves the outstanding
\* list, and the queues are looked at again
io_op_done(s, req) ==
    process_request_event_queues(
        [s EXCEPT !.outstanding_req_list = SeqRemove(@, req),
                  !.nr_outstanding_io = @ - 1])

IoDone ==
    /\ Running
    /\ \E req \in Range(sys.outstanding_req_list) :
           Step(io_op_done(sys, req), "io_op_done", drv)

\* a worker thread runs event_fn
EventFn ==
    /\ Running /\ sys.event_work = "queued"
    /\ \E reachable \in (IF sys.cur_cevent.ctype = EVENT_LEAVE
                          THEN SUBSET Range(sys.cur_cevent.member_list)
                          ELSE {{}}) :
           Step(event_fn(sys, reachable), "event_fn", drv)

\* the main thread runs the completion of the event work
EventDone ==
    /\ Running /\ sys.event_work = "fn_done"
    /\ Step(event_done(sys), "event_done", drv)

Next ==
    \/ CheckJoinSelf
    \/ CheckJoinPeer
    \/ CheckJoinByMaster
    \/ DeliverJoin
    \/ DeliverLeave
    \/ DeliverNotifySelf
    \/ DeliverNotifyPeer
    \/ QueueRequest
    \/ IoDone
    \/ EventFn
    \/ EventDone

Spec == Init /\ [][Next]_vars

-----------------------------------------------------------------------------
(* The vnode snapshots and their holders.  A holder is a request or an     *)
(* event that took references and releases each of them once;              *)
(* drv.holders[p] is the number of references the holders have on the      *)
(* snapshot at address p.                                                  *)

VnodeInit ==
    /\ sys = create_cluster(<<>>, FALSE)
    /\ drv = [holders |-> <<>>]
    /\ hist = [started |-> <<>>, done |-> <<>>, nr_requests |-> 0,
               behind |-> <<>>]
    /\ load = [deliveries |-> 0, requests |-> 0]

RECURSIVE SumSeq(_)
SumSeq(q) == IF q = <<>> THEN 0 ELSE Head(q) + SumSeq(Tail(q))

\* the member lists the driver passes to update_node_info
VnodeMembers == {<<2>>, <<2, 1>>, <<3, 1, 2>>}

\* a membership update replaces the current snapshot
VnodeUpdate ==
    /\ sys.alive /\ Len(sys.vnode_info) < MaxSnapshots
    /\ \E nodes \in VnodeMembers :
           sys' = update_node_info(sys, nodes)
    /\ drv' = [drv EXCEPT !.holders = Append(@, 0)]
    /\ UNCHANGED <<hist, load>>

\* a holder takes a reference to the current snapshot
VnodeGet ==
    /\ sys.alive /\ sys.current_vnode_info # NULL
    /\ SumSeq(drv.holders) < MaxHeld
    /\ sys' = get_vnode_info(sys)
    /\ drv' = [drv EXCEPT !.holders[sys.current_vnode_info] = @ + 1]
    /\ UNCHANGED <<hist, load>>

\* a holder takes one more reference to a snapshot it holds
VnodeGrab ==
    /\ sys.alive /\ SumSeq(drv.holders) < MaxHeld
    /\ \E p \in DOMAIN drv.holders :
           /\ drv.holders[p] > 0
           /\ sys' = grab_vnode_info(sys, p)
           /\ drv' = [drv EXCEPT !.holders[p] = @ + 1]
    /\ UNCHANGED <<hist, load>>

\* a holder releases a reference it holds
VnodePut ==
    /\ sys.alive
    /\ \E p \in DOMAIN drv.holders :
           /\ drv.holders[p] > 0
           /\ sys' = put_vnode_info(sys, p)
           /\ drv' = [drv EXCEPT !.holders[p] = @ - 1]
    /\ UNCHANGED <<hist, load>>

VnodeNext ==
    \/ VnodeUpdate
    \/ VnodeGet
    \/ VnodeGrab
    \/ VnodePut

SpecVnode == VnodeInit /\ [][VnodeNext]_vars

-----------------------------------------------------------------------------
(* What a step did, read off the history and the driver                    *)

\* an event was popped from the event queue and started in this step
EventStarted == Len(hist'.started) > Len(hist.started)

\* the done-handler of an event ran in this step
EventCompleted == Len(hist'.done) > Len(hist.done)

\* the requests that have been taken off the request queue
Dequeued(h, s) == {i \in 1..h.nr_requests : ~InQueue(s, i)}

\* the member list, the current vnode snapshot, the epoch and the epoch log
Membership(s) ==
    <<s.nodes, s.current_vnode_info, s.vnode_info, s.epoch, s.epoch_log>>

-----------------------------------------------------------------------------
(* The event serializer                                                    *)

\* the events started and not done: none or one
C1_AtMostOneEvent ==
    /\ Len(hist.started) - Len(hist.done) \in {0, 1}
    /\ (sys.event_running = 1) = (Len(hist.started) = Len(hist.done) + 1)
    /\ (sys.event_running = 1) = (sys.cur_cevent # NoEvent)

\* an event is started only when no other event runs (none ran before the
\* step, or its done-handler ran in the step) and no I/O is outstanding
C1_StartGuarded ==
    EventStarted =>
        /\ sys.event_running = 0 \/ EventCompleted
        /\ Len(hist'.started) = Len(hist.started) + 1
        /\ sys'.nr_outstanding_io = 0

\* C1: for every interleaving of deliveries, request arrivals, I/O
\* completions and event completions, at most one event is executing at any
\* time, and an event is popped from the event queue and started only where
\* event_running is 0 and nr_outstanding_io is 0.
C1_EventsSerialized == []C1_AtMostOneEvent /\ [][C1_StartGuarded]_vars

\* an event runs, a second one waits behind it, and one was completed before
C1_Witness ==
    /\ sys.event_running = 1 /\ sys.event_queue # <<>>
    /\ Len(hist.done) >= 1

\* C2: an event never overlaps with outstanding object I/O: while an event
\* is running (from its start until its done-handler has finished),
\* nr_outstanding_io is 0.
C2_NoIoWhileEventRuns == sys.event_running = 1 => sys.nr_outstanding_io = 0

\* C3: events apply in the order the driver delivered them: the events are
\* numbered in the order of delivery, they are started in that order, they
\* are done in that order, an event is started only when every event
\* delivered before it is done, and the waiting events keep the order.
C3_DeliveredOrder ==
    /\ \A i \in DOMAIN hist.started : hist.started[i] = i
    /\ \A i \in DOMAIN hist.done : hist.done[i] = i
    /\ Len(hist.started) - Len(hist.done) \in {0, 1}
    /\ \A j \in DOMAIN sys.event_queue :
           sys.event_queue[j].id = Len(hist.started) + j

\* three events were delivered, two are done and the third is running
C3_Witness ==
    /\ hist.done = <<1, 2>> /\ hist.started = <<1, 2, 3>>
    /\ sys.nr_cevents = 3

\* C4: no request is taken off the request queue while the event queue is
\* not empty, and a request that was queued while a membership event waited
\* for outstanding I/O is taken off only when that event is done.
C4_DequeueStep ==
    LET taken == Dequeued(hist', sys') \ Dequeued(hist, sys)
    IN /\ taken # {} => sys'.event_queue = <<>>
       /\ \A i \in taken :
              i \in DOMAIN hist'.behind /\ hist'.behind[i] # 0
                  => InSeq(hist'.behind[i], hist'.done)

C4_RequestsAfterEvents == [][C4_DequeueStep]_vars

\* C5: the member list, the current vnode snapshot, the epoch and the epoch
\* log change only in the done-handler of an event: a step taken while I/O
\* is outstanding, other than the completion of an event, leaves them as
\* they are.
C5_MembershipOnlyByDone ==
    [][sys.nr_outstanding_io > 0 /\ ~EventCompleted
           => Membership(sys') = Membership(sys)]_vars

-----------------------------------------------------------------------------
(* The epoch and the epoch log                                             *)

C7_LogMatchesMembers ==
    sys_can_recover(sys) /\ ~sys.epoch_log_error =>
        /\ sys.epoch \in DOMAIN sys.epoch_log
        /\ sys.epoch_log[sys.epoch] = sys.nodes

\* C8: the epoch log is append-only: no handler writes, for an epoch that
\* has a record, a record with a different content, and no record changes.
C8_AppendOnly ==
    /\ []~sys.epoch_log_error
    /\ [][\A e \in DOMAIN sys.epoch_log :
              /\ e \in DOMAIN sys'.epoch_log
              /\ sys'.epoch_log[e] = sys.epoch_log[e]]_vars

-----------------------------------------------------------------------------
(* The vnode snapshots                                                     *)

\* C9: when every holder releases each reference it took exactly once, no
\* assertion fails, the current snapshot has refcnt >= 1, the reference
\* count of a snapshot is the number of references its holders have (and
\* one more for the current snapshot), a snapshot is freed exactly when the
\* count is 0, and no snapshot a holder has a reference to is freed.
C9_RefcntSound ==
    /\ sys.alive
    /\ sys.current_vnode_info # NULL =>
           /\ sys.vnode_info[sys.current_vnode_info].refcnt >= 1
           /\ ~sys.vnode_info[sys.current_vnode_info].freed
    /\ \A p \in DOMAIN sys.vnode_info :
           /\ sys.vnode_info[p].refcnt =
                  drv.holders[p] + (IF p = sys.current_vnode_info THEN 1 ELSE 0)
           /\ sys.vnode_info[p].freed = (sys.vnode_info[p].refcnt = 0)
           /\ drv.holders[p] > 0 => ~sys.vnode_info[p].freed

\* the snapshot a holder has two references to was replaced and is alive,
\* and another replaced snapshot was freed
C9_Witness ==
    \E p, q \in DOMAIN sys.vnode_info :
        /\ p # sys.current_vnode_info /\ drv.holders[p] = 2
        /\ ~sys.vnode_info[p].freed
        /\ sys.vnode_info[q].freed

-----------------------------------------------------------------------------
(* Join admission                                                          *)

\* the peers that may ask to join while this node is the one that answers,
\* each with every join message of its
Candidates ==
    IF ~(/\ Running /\ InSeq(this_node, drv.members) /\ drv.admitted = NoJoin
         /\ \/ Head(drv.members) = this_node
            \/ sys.event_running = 0 /\ sys.event_queue = <<>>)
    THEN {}
    ELSE UNION {{[joining |-> n, jm |-> jm] : jm \in CandidateMsgs(n)} :
                   n \in Nodes \ Range(drv.members)}

\* the claim as stated: for every local status, ctime different gives
\* InvalidCTime (Fail); else a greater epoch gives OldNodeVer (JoinLater);
\* else a smaller epoch while the node cannot recover gives NewNodeVer
\* (JoinLater); else an equal epoch with another member list gives
\* InvalidEpoch (Fail)
C10_RulesInEveryStatus ==
    \A c \in Candidates :
        c.jm.proto_ver = SD_SHEEP_PROTO_VER =>
            LET r == sd_check_join_cb(sys, c.joining, c.jm)
                is(result, ret) == r.jm.result = result /\ r.ret = ret
            IN IF c.jm.ctime # get_cluster_ctime(sys)
               THEN is(SD_RES_INVALID_CTIME, CJ_RES_FAIL)
               ELSE IF c.jm.epoch > sys.epoch
               THEN is(SD_RES_OLD_NODE_VER, CJ_RES_JOIN_LATER)
               ELSE IF c.jm.epoch < sys.epoch /\ ~sys_can_recover(sys)
               THEN is(SD_RES_NEW_NODE_VER, CJ_RES_JOIN_LATER)
               ELSE IF c.jm.epoch = sys.epoch
                       /\ c.jm.nodes # epoch_log_nodes(sys, sys.epoch)
               THEN is(SD_RES_INVALID_EPOCH, CJ_RES_FAIL)
               ELSE TRUE

\* the sanity rule that applies to a join message: none for a node waiting
\* for format or shut down, and none for a message without members
SanityRule(s, jm) ==
    IF sys_stat_wait_format(s) \/ sys_stat_shutdown(s) \/ jm.nr_nodes = 0
    THEN "none"
    ELSE IF jm.ctime # get_cluster_ctime(s) THEN SD_RES_INVALID_CTIME
    ELSE IF jm.epoch > get_latest_epoch(s) THEN SD_RES_OLD_NODE_VER
    ELSE IF sys_can_recover(s) THEN SD_RES_SUCCESS
    ELSE IF jm.epoch < get_latest_epoch(s) THEN SD_RES_NEW_NODE_VER
    ELSE IF jm.nodes # epoch_log_nodes(s, jm.epoch) THEN SD_RES_INVALID_EPOCH
    ELSE SD_RES_SUCCESS

\* C10: for a peer with the protocol version of the node, the sanity rules
\* apply when the node is neither waiting for format nor shut down and the
\* message has members; then, in this order: another ctime gives
\* InvalidCTime; an epoch greater than the latest logged epoch gives
\* OldNodeVer; a node that can recover accepts; an epoch smaller than the
\* latest logged epoch gives NewNodeVer; another member list than the record
\* of that epoch gives InvalidEpoch.  OldNodeVer and NewNodeVer answer
\* JoinLater and the other failures Fail, but a node waiting for join
\* answers MasterTransfer to any failure of a message whose epoch is greater
\* than its own.
C10_SanityRules ==
    \A c \in Candidates :
        c.jm.proto_ver = SD_SHEEP_PROTO_VER =>
            LET r == sd_check_join_cb(sys, c.joining, c.jm)
                rule == SanityRule(sys, c.jm)
            IN IF rule = "none"
               THEN r.jm.result \in {SD_RES_SUCCESS, SD_RES_NOT_FORMATTED,
                                     SD_RES_SHUTDOWN}
               ELSE /\ r.jm.result = rule
                    /\ r.ret =
                         IF rule = SD_RES_SUCCESS THEN CJ_RES_SUCCESS
                         ELSE IF sys_stat_wait_join(sys)
                                 /\ c.jm.epoch > sys.epoch
                         THEN CJ_RES_MASTER_TRANSFER
                         ELSE IF rule \in {SD_RES_OLD_NODE_VER,
                                           SD_RES_NEW_NODE_VER}
                         THEN CJ_RES_JOIN_LATER
                         ELSE CJ_RES_FAIL

\* the admission check refused a peer for its member list
C10_Witness ==
    /\ drv.admitted # NoJoin /\ drv.admitted.joined # this_node
    /\ drv.admitted.jm.result = SD_RES_INVALID_EPOCH
    /\ drv.admitted.result = CJ_RES_FAIL

-----------------------------------------------------------------------------
(* Admission while the node waits for join                                 *)

\* the peers whose join message passes the sanity check of this node while
\* it waits for join
WaitJoinCandidates ==
    {c \in Candidates :
        /\ sys_stat_wait_join(sys)
        /\ c.jm.proto_ver = SD_SHEEP_PROTO_VER
        /\ cluster_sanity_check(sys, c.jm.nodes, c.jm.nr_nodes, c.jm.ctime,
                                c.jm.epoch) = SD_RES_SUCCESS}

\* the current members, the candidate and the leave-set
Gathered(c) ==
    Range(sys.nodes) \cup {c.joining} \cup Range(sys.leave_list)

\* the members of the local record of the epoch the candidate names (a new
\* node names epoch 0, which has no record)
LocalRecord(c) == Range(epoch_log_nodes(sys, c.jm.epoch))

\* C11: when the node waits for join and a peer passes the sanity check,
\* admission reports status Ok with inc_epoch set only if the current
\* members, the candidate and the leave-set make up the record of the epoch,
\* and a candidate that is in the record with every current member, while
\* the record is not yet complete, is accepted with status WaitJoin and
\* inc_epoch clear.  (The claim also says that a complete set is always
\* reported with inc_epoch set.)
C11_OkWithIncEpochOnlyIfComplete ==
    \A c \in WaitJoinCandidates :
        LET r == sd_check_join_cb(sys, c.joining, c.jm)
        IN /\ (r.jm.cluster_status = SD_STATUS_OK /\ r.jm.inc_epoch # 0)
                  => Gathered(c) = LocalRecord(c)
           /\ Gathered(c) # LocalRecord(c)
                  /\ (Range(sys.nodes) \cup {c.joining}) \subseteq LocalRecord(c)
                  => /\ r.ret = CJ_RES_SUCCESS
                     /\ r.jm.cluster_status = SD_STATUS_WAIT_FOR_JOIN
                     /\ r.jm.inc_epoch = 0

-----------------------------------------------------------------------------
(* A join followed by the leave of the node that joined                    *)

\* a stable cluster in status Ok: nothing is in flight on the node, it is a
\* member, and the record of the epoch is the member list
Stable ==
    /\ Running /\ sys_stat_ok(sys) /\ ~sys.epoch_log_error
    /\ sys.event_running = 0 /\ sys.event_queue = <<>>
    /\ sys.nr_outstanding_io = 0 /\ sys.request_queue = <<>>
    /\ drv.admitted = NoJoin
    /\ InSeq(this_node, drv.members) /\ qsort(drv.members) = sys.nodes
    /\ epoch_log_nodes(sys, sys.epoch) = sys.nodes

\* the node after the event at the head of its queue has run and is done,
\* every member being reachable
Applied(s) == event_done(event_fn(s, Nodes))

\* the node after peer a has joined with message jm and left again; early
\* says that the leave is delivered before the join event is done
JoinThenLeave(s, a, jm, early) ==
    LET r == sd_check_join_cb(s, a, jm)
        joined == sd_join_handler(r.sys, a, Append(drv.members, a),
                                  r.ret, r.jm)
    IN IF early
       THEN Applied(Applied(sd_leave_handler(joined, a, drv.members)))
       ELSE Applied(sd_leave_handler(Applied(joined), a, drv.members))

\* C13: on a stable cluster in status Ok, a successful join of a node
\* followed by its leave, both events applied, leaves the member list and
\* the status as they were and the epoch 2 higher, and the record of the
\* final epoch equals the record of the epoch before the join.
C13_JoinLeaveSymmetric ==
    Stable =>
        \A a \in Nodes \ Range(drv.members) : \A jm \in CandidateMsgs(a) :
            \A early \in BOOLEAN :
                sd_check_join_cb(sys, a, jm).ret = CJ_RES_SUCCESS =>
                    LET s == JoinThenLeave(sys, a, jm, early)
                    IN /\ s.alive
                       /\ s.event_running = 0 /\ s.event_queue = <<>>
                       /\ s.nodes = sys.nodes
                       /\ s.status = sys.status
                       /\ s.epoch = sys.epoch + 2
                       /\ epoch_log_nodes(s, s.epoch)
                              = epoch_log_nodes(sys, sys.epoch)

\* the leave of a node cannot halt the cluster: halting is not allowed, or
\* the zones of the members are as many as the copies
EnoughZones ==
    sys_can_halt(sys) => current_nr_zones(sys) >= sys.nr_copies

\* C13: on a stable cluster in status Ok that the leave cannot halt, a
\* successful join of a node followed by its leave, both events applied with
\* every member reachable, leaves the member list and the status as they
\* were and the epoch 2 higher, and the record of the final epoch equals the
\* record of the epoch before the join.
C13_JoinLeaveSymmetricWithZones ==
    (Stable /\ EnoughZones) =>
        \A a \in Nodes \ Range(drv.members) : \A jm \in CandidateMsgs(a) :
            \A early \in BOOLEAN :
                sd_check_join_cb(sys, a, jm).ret = CJ_RES_SUCCESS =>
                    LET s == JoinThenLeave(sys, a, jm, early)
                    IN /\ s.alive
                       /\ s.event_running = 0 /\ s.event_queue = <<>>
                       /\ s.nodes = sys.nodes
                       /\ s.status = sys.status
                       /\ s.epoch = sys.epoch + 2
                       /\ epoch_log_nodes(s, s.epoch)
                              = epoch_log_nodes(sys, sys.epoch)

\* a stable cluster of two zones that may halt, after a node has joined and
\* left: the records of the last three epochs show the join and the leave
C13_Witness ==
    /\ Stable /\ EnoughZones /\ sys_can_halt(sys)
    /\ sys.epoch >= 3
    /\ epoch_log_nodes(sys, sys.epoch - 2) = sys.nodes
    /\ \E a \in Nodes \ Range(sys.nodes) :
           epoch_log_nodes(sys, sys.epoch - 1) = qsort(Append(sys.nodes, a))
    /\ Len(hist.done) >= 3

-----------------------------------------------------------------------------
(* The nodes of the latest record restart and rejoin one after another     *)

\* the orders in which the nodes of S may join
RECURSIVE Orders(_)
Orders(S) ==
    IF S = {} THEN {<<>>}
    ELSE UNION {{<<x>> \o o : o \in Orders(S \ {x})} : x \in S}

\* a node at start that has an epoch log
Restarted ==
    /\ sys.epoch_log # <<>>
    /\ sys = create_cluster(sys.epoch_log, sys.nohalt)

\* the master of the rejoining group when this node joins it: a node that
\* restarted with the epoch log of this node and has the members as nodes
RestartedMaster(s, members) ==
    [create_cluster(s.epoch_log, s.nohalt) EXCEPT
        !.this_node = Head(members), !.nodes = qsort(members),
        !.join_finished = TRUE, !.epoch = get_latest_epoch(s),
        !.nr_copies = config_copies(s)]

\* this node after node a, restarted with the same epoch log, has joined the
\* group of the members and the event is applied; the joins before the own
\* join of this node are not delivered to it
Rejoined(s, members, a) ==
    LET msg == join_request(s, config_copies(s))
        r == IF a = s.this_node /\ members # <<>>
             THEN [sd_check_join_cb(RestartedMaster(s, members), a, msg)
                       EXCEPT !.sys = s]
             ELSE sd_check_join_cb(s, a, msg)
    IN IF a # s.this_node /\ ~InSeq(s.this_node, members) THEN s
       ELSE Applied(sd_join_handler(r.sys, a, Append(members, a), r.ret, r.jm))

\* the states of this node while the nodes of the order join: at start and
\* after each of the joins
RECURSIVE RejoinStates(_, _, _)
RejoinStates(s, members, order) ==
    IF order = <<>> THEN <<s>>
    ELSE <<s>> \o RejoinStates(Rejoined(s, members, Head(order)),
                                Append(members, Head(order)), Tail(order))

\* the status is WaitJoin until the last node of the order has joined
WaitsForLast(states) ==
    \A i \in 1..(Len(states) - 1) : sys_stat_wait_join(states[i])

-----------------------------------------------------------------------------
(* The status Halt                                                         *)

\* the done-handler of a leave event ran in this step
LeaveApplied == EventCompleted /\ sys.cur_cevent.ctype = EVENT_LEAVE

\* the done-handler of a join event ran in this step
JoinApplied == EventCompleted /\ sys.cur_cevent.ctype = EVENT_JOIN

C16_OkAfterJoinHasZones ==
    [][/\ (sys_stat_halt(sys) /\ sys_stat_ok(sys'))
            => JoinApplied /\ current_nr_zones(sys') >= sys'.nr_copies
       /\ (sys_stat_halt(sys) /\ JoinApplied
               /\ current_nr_zones(sys') >= sys'.nr_copies)
            => sys_stat_ok(sys')
       /\ (JoinApplied /\ sys_can_halt(sys) /\ sys_stat_ok(sys'))
            => current_nr_zones(sys') >= sys'.nr_copies]_vars

-----------------------------------------------------------------------------
(* The majority check of a leave event, for member lists of any length     *)

\* the most members that remain after a leave
MaxRemaining == 5

\* the nodes of S in ascending order
RECURSIVE SortedSeq(_)
SortedSeq(S) ==
    IF S = {} THEN <<>>
    ELSE LET m == CHOOSE x \in S : \A y \in S : x <= y
         IN <<m>> \o SortedSeq(S \ {m})

\* a leave event has been taken from the event queue: node MaxRemaining + 1
\* left, and any of the other nodes remain
MajorityInit ==
    /\ \E S \in SUBSET (1..MaxRemaining) :
           sys = [create_cluster(<<>>, FALSE) EXCEPT
                     !.cur_cevent = [ctype |-> EVENT_LEAVE, id |-> 1,
                                     member_list |-> SortedSeq(S),
                                     left |-> MaxRemaining + 1],
                     !.event_running = 1, !.event_work = "queued"]
    /\ drv = [reachable |-> {}]
    /\ hist = [started |-> <<1>>, done |-> <<>>, nr_requests |-> 0,
               behind |-> <<>>]
    /\ load = [deliveries |-> 0, requests |-> 0]

\* a worker thread runs event_fn; connect_to reaches some of the members
MajorityFn ==
    /\ sys.alive /\ sys.event_work = "queued"
    /\ \E reachable \in SUBSET Range(sys.cur_cevent.member_list) :
           /\ sys' = event_fn(sys, reachable)
           /\ drv' = [drv EXCEPT !.reachable = reachable]
    /\ UNCHANGED <<hist, load>>

MajorityNext == MajorityFn

SpecMajority == MajorityInit /\ [][MajorityNext]_vars

\* the members that remain after the leave, and how many were reached
NrRemaining == Len(sys.cur_cevent.member_list)

NrReached == Cardinality(drv.reachable \cap Range(sys.cur_cevent.member_list))

\* C17: the leave handler aborts the process exactly when the number nr of
\* remaining members is at least 3 and fewer than ceil(nr/2)+1 of them are
\* reachable; with nr < 3 it never aborts.
C17_AbortBelowCeilMajority ==
    sys.event_work = "fn_done" =>
        (~sys.alive <=> /\ NrRemaining >= 3
                        /\ NrReached < (NrRemaining + 1) \div 2 + 1)

\* C17: the leave handler aborts the process exactly when the number nr of
\* remaining members is at least 3 and fewer than floor(nr/2)+1 of them are
\* reachable; with nr < 3 it never aborts, whatever the reachability.
C17_AbortBelowMajority ==
    sys.event_work = "fn_done" =>
        (~sys.alive <=> /\ NrRemaining >= 3
                        /\ NrReached < NrRemaining \div 2 + 1)

\* the process has aborted with one of three remaining members reached
C17_Witness ==
    /\ sys.event_work = "fn_done" /\ ~sys.alive
    /\ NrRemaining = 3 /\ NrReached = 1

-----------------------------------------------------------------------------
(* The status Shutdown                                                     *)

\* sd_join_handler ran in this step
JoinDelivered ==
    drv.admitted # NoJoin /\ drv'.nr_deliveries > drv.nr_deliveries

\* sd_leave_handler ran in this step
LeaveDelivered ==
    /\ drv.admitted = NoJoin /\ drv'.nr_deliveries > drv.nr_deliveries
    /\ drv'.members # drv.members

\* C18: once the status of a node is Shutdown, no join delivery (with
\* result Success, Fail, JoinLater or MasterTransfer), leave delivery or
\* event completion changes its status, member list, epoch or epoch log.
C18_ShutdownTerminal ==
    [][(sys_stat_shutdown(sys)
            /\ (JoinDelivered \/ LeaveDelivered \/ EventCompleted))
           => /\ sys'.status = sys.status
              /\ sys'.nodes = sys.nodes
              /\ sys'.epoch = sys.epoch
              /\ sys'.epoch_log = sys.epoch_log]_vars

-----------------------------------------------------------------------------
(* The leave list                                                          *)

\* the leave list names no node twice
NoDuplicates(q) == Cardinality(Range(q)) = Len(q)

\* C19: in every reachable state the leave-set contains no node twice,
\* only nodes that appear in the epoch-log record of the local latest
\* epoch, and no node that is in the current member list.
C19_LeaveSetSound ==
    /\ NoDuplicates(sys.leave_list)
    /\ Range(sys.leave_list)
           \subseteq Range(epoch_log_nodes(sys, get_latest_epoch(sys)))
    /\ Range(sys.leave_list) \cap Range(sys.nodes) = {}

\* C20: the leave-set is emptied on every transition of the status back to
\* Ok: in every state reached by a WaitJoin-to-Ok transition (through a join
\* event completing with inc_epoch, through the peer-rejection path, or
\* through the master-transfer path) the leave-set is empty.
C20_LeaveSetEmptiedAtOk ==
    [][(sys_stat_wait_join(sys) /\ sys_stat_ok(sys'))
           => sys'.leave_list = <<>>]_vars

-----------------------------------------------------------------------------
(* The delivery of a rejected join of a peer                               *)

\* sd_join_handler ran in this step for a peer with result Fail or JoinLater
RejectionDelivered ==
    /\ JoinDelivered
    /\ drv.admitted.joined # this_node
    /\ drv.admitted.result \in {CJ_RES_FAIL, CJ_RES_JOIN_LATER}

\* the peer is in the record of the latest epoch and not on the leave list
Addable(n) ==
    /\ InSeq(n, epoch_log_nodes(sys, get_latest_epoch(sys)))
    /\ ~InSeq(n, sys.leave_list)

\* nr_local == nr_current + nr_leave, with the leave list after the delivery
CountsMatch ==
    get_nodes_nr_epoch(sys, sys.epoch)
        = Len(drv'.members) + Len(sys'.leave_list)

\* the member list was written as the record of the epoch in this step, or
\* the epoch log was left alone
LogWritten(written) ==
    LET w == IF written THEN update_epoch_log(sys, sys.epoch, sys.nodes)
             ELSE sys
    IN /\ sys'.epoch_log = w.epoch_log
       /\ sys'.epoch_log_error = w.epoch_log_error

\* C21: when the join of a peer is delivered with result Fail or JoinLater
\* in status WaitJoin, the peer is added to the leave-set if and only if it
\* belongs to the record of the latest epoch and is not yet in the
\* leave-set, and the status becomes Ok with an epoch-log record written
\* exactly when nr_local == nr_current + nr_leave; in any other status the
\* delivery changes neither leave-set, status nor epoch log.
C21_RejectionEffect ==
    [][RejectionDelivered =>
          IF sys_stat_wait_join(sys)
          THEN /\ sys'.leave_list =
                      IF Addable(drv.admitted.joined)
                      THEN Append(sys.leave_list, drv.admitted.joined)
                      ELSE sys.leave_list
               /\ sys_stat_ok(sys') <=> CountsMatch
               /\ LogWritten(CountsMatch)
          ELSE /\ sys'.leave_list = sys.leave_list
               /\ sys'.status = sys.status
               /\ sys'.epoch_log = sys.epoch_log]_vars

\* C21: when the join of a peer is delivered with result Fail or JoinLater
\* in status WaitJoin, the peer is added to the leave-set if and only if it
\* belongs to the record of the latest epoch and is not yet in the
\* leave-set; the status becomes Ok with the member list written as the
\* record of the epoch exactly when the peer was added and
\* nr_local == nr_current + nr_leave; in any other status the delivery
\* changes neither leave-set, status nor epoch log.
C21_RejectionEffectWhenAdded ==
    [][RejectionDelivered =>
          IF sys_stat_wait_join(sys)
          THEN LET added == Addable(drv.admitted.joined)
                   flips == added /\ CountsMatch
               IN /\ sys'.leave_list =
                         IF added
                         THEN Append(sys.leave_list, drv.admitted.joined)
                         ELSE sys.leave_list
                  /\ sys_stat_ok(sys') <=> flips
                  /\ LogWritten(flips)
          ELSE /\ sys'.leave_list = sys.leave_list
               /\ sys'.status = sys.status
               /\ sys'.epoch_log = sys.epoch_log]_vars

\* the rejected peer was put on the leave list and made the counts match:
\* the node is Ok with a leave list that is not empty
C21_Witness ==
    /\ Running /\ sys_stat_ok(sys) /\ drv.admitted = NoJoin
    /\ sys.leave_list # <<>>
    /\ get_nodes_nr_epoch(sys, sys.epoch)
           = Len(drv.members) + Len(sys.leave_list)
    /\ epoch_log_nodes(sys, sys.epoch) # sys.nodes

-----------------------------------------------------------------------------
(* The delivery of a master transfer                                       *)

\* sd_join_handler ran in this step with result MasterTransfer
TransferDelivered ==
    JoinDelivered /\ drv.admitted.result = CJ_RES_MASTER_TRANSFER

\* C22: when a node in WaitJoin with latest epoch e admits a candidate that
\* reports epoch e2 > e and the result MasterTransfer is delivered, the
\* node afterwards holds the leave_nodes of the message in its leave-set,
\* has join_finished set, and has its epoch advanced to e2; a node whose
\* join was not yet finished seeds its membership with itself only.
C22_TransferAdvancesEpoch ==
    [][TransferDelivered =>
          LET jm == drv.admitted.jm
          IN /\ sys'.join_finished
             /\ Range(leave_nodes(jm)) \subseteq Range(sys'.leave_list)
             /\ drv.admitted.joined # this_node => sys'.epoch = jm.epoch
             /\ ~sys.join_finished => sys'.nodes = <<this_node>>]_vars

\* C22: when the result MasterTransfer is delivered, the node puts on its
\* leave-set the leave_nodes of the message that are in the record of its
\* latest epoch and not yet listed, and has join_finished set afterwards; a
\* node whose join was finished keeps its member list and its epoch, a
\* node whose join was not yet finished seeds its membership with itself
\* only and takes the latest epoch of its own log as its epoch.
C22_TransferKeepsEpoch ==
    [][TransferDelivered =>
          LET jm == drv.admitted.jm
              le == get_latest_epoch(sys)
          IN /\ sys'.alive /\ sys'.join_finished
             /\ sys'.leave_list
                    = add_leave_nodes(sys, leave_nodes(jm), le).leave_list
             /\ IF sys.join_finished
                THEN sys'.nodes = sys.nodes /\ sys'.epoch = sys.epoch
                ELSE sys'.nodes = <<this_node>> /\ sys'.epoch = le]_vars

\* a peer that reported a greater epoch was made master: the node has
\* handled the transfer and keeps its own epoch
C22_Witness ==
    /\ Running /\ drv.admitted = NoJoin /\ sys.join_finished
    /\ ~sys_stat_shutdown(sys)
    /\ Len(drv.members) > Len(sys.nodes)
    /\ drv.members[Len(drv.members)] # this_node
    /\ Len(hist.started) + 2 <= drv.nr_deliveries

MaxPending == 3
MaxPeerMsgs == 1

ClusterOps == {"format", "shutdown", NewVdi}

\* the entry block() leaves in the driver's order; it carries no payload, the
\* id of the calling request is kept for the comparison only
BlockEntry(req) == [op |-> "block", result |-> SD_RES_SUCCESS, from |-> req.id]

\* the driver calls queue_cluster_request made for the requests added to the
\* pending list between s and s2
Called(s, s2) ==
    IF Len(s2.pending_list) > Len(s.pending_list)
    THEN [i \in 1..(Len(s2.pending_list) - Len(s.pending_list)) |->
             LET req == s2.pending_list[Len(s.pending_list) + i]
             IN IF has_process_work(req.op) THEN BlockEntry(req)
                ELSE prepare_cluster_msg(req)]
    ELSE <<>>

\* the node after its own join has been delivered and completed: alone, or
\* admitted by the master of the group <<1>>
JoinedStates(log, nohalt, g) ==
    LET c == create_cluster(log, nohalt)
        r == sd_check_join_cb(c, this_node, join_request(c, config_copies(c)))
    IN IF g = <<>>
       THEN {Applied(sd_join_handler(r.sys, this_node, <<this_node>>,
                                     r.ret, r.jm))}
       ELSE {Applied(sd_join_handler(c, this_node, Append(g, this_node),
                                     a.result, a.jm)) :
                a \in {b \in MasterAnswers(c) : b.result = CJ_RES_SUCCESS}}

PendInit ==
    /\ \E log \in InitLogs, g \in InitGroups :
           /\ sys \in JoinedStates(log, FALSE, g)
           /\ drv = [members |-> Append(g, this_node), out |-> <<>>,
                     blocked |-> FALSE, nr_deliveries |-> 0]
    /\ sys.alive /\ sys.join_finished
    /\ hist = [started |-> <<>>, done |-> <<>>, nr_requests |-> 0,
               behind |-> <<>>]
    /\ load = [deliveries |-> MaxPeerMsgs, requests |-> MaxPending]

\* a client sends a cluster request
PendQueue ==
    /\ Running /\ hist.nr_requests < load.requests
    /\ \E op \in ClusterOps :
           LET s2 == queue_request(sys, [id |-> hist.nr_requests + 1,
                                         op |-> op])
           IN /\ sys' = s2
              /\ drv' = [drv EXCEPT !.out = @ \o Called(sys, s2)]
    /\ hist' = [hist EXCEPT !.nr_requests = @ + 1]
    /\ UNCHANGED load

\* the driver delivers the next message of this node
PendDeliverSelf ==
    /\ Running /\ ~drv.blocked
    /\ drv.out # <<>> /\ Head(drv.out).op # "block"
    /\ sys' = sd_notify_handler(sys, this_node, Head(drv.out))
    /\ drv' = [drv EXCEPT !.out = Tail(@)]
    /\ UNCHANGED <<hist, load>>

\* the driver delivers a message of the peer
PendDeliverPeer ==
    /\ Running /\ ~drv.blocked
    /\ InSeq(1, drv.members) /\ drv.nr_deliveries < load.deliveries
    /\ \E op \in ClusterOps :
           sys' = sd_notify_handler(sys, 1,
                      [op |-> op, result |-> SD_RES_SUCCESS, from |-> 0])
    /\ drv' = Delivered(drv)
    /\ UNCHANGED <<hist, load>>

\* the block() of this node is reached: delivery pauses, sd_block_handler runs
PendBlock ==
    /\ Running /\ ~drv.blocked
    /\ drv.out # <<>> /\ Head(drv.out).op = "block"
    /\ sys' = sd_block_handler(sys)
    /\ drv' = [drv EXCEPT !.blocked = TRUE]
    /\ UNCHANGED <<hist, load>>

\* the block work queue has run do_cluster_request: cluster_op_done sends the
\* result by unblock(), which takes the place of the block in the order
PendWorkDone ==
    /\ Running /\ sys.block_work # NoReq
    /\ sys' = cluster_op_done(sys)
    /\ drv' = [drv EXCEPT
           !.out = <<prepare_cluster_msg(sys.block_work)>> \o Tail(@),
           !.blocked = FALSE]
    /\ UNCHANGED <<hist, load>>

PendEventFn ==
    /\ Running /\ sys.event_work = "queued"
    /\ sys' = event_fn(sys, Nodes)
    /\ UNCHANGED <<drv, hist, load>>

PendEventDone ==
    /\ Running /\ sys.event_work = "fn_done"
    /\ sys' = event_done(sys)
    /\ drv' = [drv EXCEPT !.out = @ \o Called(sys, sys')]
    /\ UNCHANGED <<hist, load>>

PendNext ==
    \/ PendQueue
    \/ PendDeliverSelf
    \/ PendDeliverPeer
    \/ PendBlock
    \/ PendWorkDone
    \/ PendEventFn
    \/ PendEventDone

SpecPending == PendInit /\ [][PendNext]_vars

\* the notify events of the node that are queued or running
NotifyEvents ==
    {sys.event_queue[i] : i \in {j \in DOMAIN sys.event_queue :
                                    sys.event_queue[j].ctype = EVENT_NOTIFY}}
        \cup (IF sys.cur_cevent # NoEvent /\ sys.cur_cevent.ctype = EVENT_NOTIFY
              THEN {sys.cur_cevent} ELSE {})

\* how often request id is queued, parked, attached to an event, or completed
NrHeld(id) ==
    Cardinality({i \in DOMAIN sys.request_queue : sys.request_queue[i].id = id})
    + Cardinality({i \in DOMAIN sys.pending_list : sys.pending_list[i].id = id})
    + Cardinality({w \in NotifyEvents : w.req.id = id})
    + Cardinality({i \in DOMAIN sys.done_reqs : sys.done_reqs[i] = id})

\* C23: every cluster request parked on the pending list is completed exactly
\* once and by the delivery of its own broadcast: a self-sent notify event
\* carries the request its message was built from, a peer's message carries
\* none, the request sd_block_handler runs is the one whose block() is being
\* served, the pending list is the list of the broadcasts still to be
\* delivered, and every request issued is in exactly one place (waiting on
\* the request queue, parked, attached to one event, or completed once).
C23_PendingCompletedByOwnBroadcast ==
    /\ \A w \in NotifyEvents :
           IF w.sender = this_node THEN w.req # NoReq /\ w.req.id = w.msg.from
           ELSE w.req = NoReq
    /\ sys.block_work # NoReq =>
           /\ drv.out # <<>> /\ Head(drv.out).op = "block"
           /\ sys.block_work.id = Head(drv.out).from
    /\ [i \in DOMAIN sys.pending_list |-> sys.pending_list[i].id]
           = [i \in DOMAIN drv.out |-> drv.out[i].from]
    /\ \A id \in 1..hist.nr_requests : NrHeld(id) = 1

\* the work of a process-work request is running while a notify-only request
\* issued behind it is parked, an earlier request has been completed and a
\* message of the peer is waiting on the event queue
C23_Witness ==
    /\ sys.alive /\ sys.block_work # NoReq
    /\ Len(sys.pending_list) = 2
    /\ ~has_process_work(sys.pending_list[2].op)
    /\ sys.done_reqs # <<>>
    /\ \E w \in NotifyEvents : w.sender # this_node


\* C24: once the status of the node is Ok or Halt, no step takes it back to
\* WaitJoin or WaitFormat; in particular no completion of a join event
\* overwrites it with the older cluster_status of its join message.
C24_StatusNeverGoesBack ==
    [][(sys_stat_ok(sys) \/ sys_stat_halt(sys))
           => ~(sys_stat_wait_join(sys') \/ sys_stat_wait_format(sys'))]_vars


\* ---------------------------------------------------------------------
\* Two nodes side by side: the master (node 1) of a running cluster in
\* drv.master and this node joining it in sys.  The driver hands every
\* delivery to both, to this node once its join has been delivered.
\* ---------------------------------------------------------------------

\* the groups the master runs when this node arrives
AgreeGroups == {<<1>>, <<1, 3>>}

\* the master: formatted with the group g at epoch 1, status Ok
RunningMaster(g) ==
    update_node_info(
        [create_cluster((1 :> g), FALSE) EXCEPT
            !.this_node = 1, !.status = SD_STATUS_OK,
            !.join_finished = TRUE, !.epoch = 1,
            !.nr_copies = FormatCopies, !.ctime = FormatCtime],
        g)

AgreeInit ==
    /\ \E log \in InitLogs, nohalt \in BOOLEAN :
           sys = create_cluster(log, nohalt)
    /\ \E g \in AgreeGroups :
           drv = [master |-> RunningMaster(g), members |-> g,
                  admitted |-> NoJoin, nr_deliveries |-> 0]
    /\ hist = [started |-> <<>>, done |-> <<>>, nr_requests |-> 0,
               behind |-> <<>>]
    /\ load = [deliveries |-> MaxDeliveries, requests |-> 0]

\* the master checks the join request of this node
AgreeCheckJoin ==
    /\ Running /\ drv.master.alive
    /\ ~InSeq(this_node, drv.members) /\ drv.admitted = NoJoin
    /\ ~sys.join_finished
    /\ LET r == sd_check_join_cb(drv.master, this_node,
                                 join_request(sys, config_copies(sys)))
       IN drv' = [drv EXCEPT
              !.master = r.sys,
              !.admitted = [joined |-> this_node, jm |-> r.jm,
                            result |-> r.ret]]
    /\ UNCHANGED <<sys, hist, load>>

\* the answer of the master is delivered to the master and to this node
AgreeDeliverJoin ==
    /\ CanDeliver /\ drv.master.alive /\ drv.admitted # NoJoin
    /\ LET a == drv.admitted
           members == IF a.result = CJ_RES_SUCCESS
                      THEN Append(drv.members, a.joined) ELSE drv.members
       IN /\ sys' = sd_join_handler(sys, a.joined, members, a.result, a.jm)
          /\ drv' = Delivered([drv EXCEPT
                 !.master = sd_join_handler(@, a.joined, members,
                                            a.result, a.jm),
                 !.members = members,
                 !.admitted = NoJoin])
    /\ UNCHANGED <<hist, load>>

\* node 3 leaves: delivered to the master, and to this node if it is a member
AgreeDeliverLeave ==
    /\ CanDeliver /\ drv.master.alive /\ InSeq(3, drv.members)
    /\ LET members == SeqRemove(drv.members, 3)
       IN /\ sys' = IF InSeq(this_node, drv.members)
                    THEN sd_leave_handler(sys, 3, members) ELSE sys
          /\ drv' = Delivered([drv EXCEPT
                 !.master = sd_leave_handler(@, 3, members),
                 !.members = members])
    /\ UNCHANGED <<hist, load>>

\* the event worker of this node
AgreeEventFn ==
    /\ Running /\ sys.event_work = "queued"
    /\ sys' = event_fn(sys, Nodes)
    /\ UNCHANGED <<drv, hist, load>>

AgreeEventDone ==
    /\ Running /\ sys.event_work = "fn_done"
    /\ sys' = event_done(sys)
    /\ UNCHANGED <<drv, hist, load>>

\* the event worker of the master
AgreeMasterEventFn ==
    /\ drv.master.alive /\ drv.master.event_work = "queued"
    /\ drv' = [drv EXCEPT !.master = event_fn(@, Nodes)]
    /\ UNCHANGED <<sys, hist, load>>

AgreeMasterEventDone ==
    /\ drv.master.alive /\ drv.master.event_work = "fn_done"
    /\ drv' = [drv EXCEPT !.master = event_done(@)]
    /\ UNCHANGED <<sys, hist, load>>

AgreeNext ==
    \/ AgreeCheckJoin
    \/ AgreeDeliverJoin
    \/ AgreeDeliverLeave
    \/ AgreeEventFn
    \/ AgreeEventDone
    \/ AgreeMasterEventFn
    \/ AgreeMasterEventDone

SpecAgree == AgreeInit /\ [][AgreeNext]_vars

\* both nodes are members whose join has finished; every delivery so far
\* was handled by both at once
BothJoined ==
    /\ sys.alive /\ sys.join_finished /\ InSeq(this_node, drv.members)
    /\ drv.master.alive /\ drv.master.join_finished

\* C25: the master and the node that joined it hold the same epoch and the
\* same sorted member list once the join has been delivered, also when a
\* leave was delivered between the admission check and the join.
C25_EpochAgreement ==
    BothJoined => /\ sys.epoch = drv.master.epoch
                  /\ sys.nodes = drv.master.nodes


\* ---------------------------------------------------------------------
\* Progress of the event queue.  The work queues run every queued work item
\* (event_fn, then event_done in the main thread) and every outstanding I/O
\* request completes; io_op_done calls process_request_event_queues.
\* ---------------------------------------------------------------------

SpecLive ==
    /\ Init /\ [][Next]_vars
    /\ WF_vars(EventFn) /\ WF_vars(EventDone) /\ WF_vars(IoDone)

\* event id waits on the event queue or is the running event
Queued(id) ==
    \/ \E i \in DOMAIN sys.event_queue : sys.event_queue[i].id = id
    \/ sys.cur_cevent.id = id

\* event id was started and its done-handler has run
Completed(id) == InSeq(id, hist.started) /\ InSeq(id, hist.done)

\* C26: every event placed on the event queue is eventually started and
\* completed while the process runs, whatever requests the clients send,
\* given that the work queues run their items and the I/O completes.
C26_EventsEventuallyCompleted ==
    \A id \in 1..MaxDeliveries : Queued(id) ~> (Completed(id) \/ ~sys.alive)

\* an event that waited for outstanding I/O while a client request was queued
\* behind it has been completed
C26_Witness ==
    /\ sys.alive
    /\ \E i \in DOMAIN hist.behind :
           hist.behind[i] # 0 /\ Completed(hist.behind[i])

====
